---- MODULE Spec2Model ----
(***************************************************************************)
(* XA-ADPCM encoder of mulbruk/xa-adpcm-encoder: the sound unit encoder,   *)
(* the sound group packer, the sector assembler, the stream driver and     *)
(* the APCM/AIFF header writer, as state machines over the 32-bit integer  *)
(* arithmetic of the Rust source.                                          *)
(***************************************************************************)
EXTENDS Integers, Sequences, FiniteSets, TLC

\* ------------------------------------------------------------------------
\* Program constants (src/src/adpcm_encoder.rs)

XA_ADPCM_FILTER_COUNT == 4
FILTER_K0 == <<0, 60, 115, 98>>
FILTER_K1 == <<0, 0, -52, -55>>
MAX_SHIFT == 12
SOUND_UNIT_SIZE == 28
SOUND_UNIT_SAMPLES == 28
SOUND_GROUP_SAMPLES == SOUND_UNIT_SAMPLES * 8
ADPCM_SECTOR_SAMPLES == SOUND_GROUP_SAMPLES * 18
XA_ADPCM_SECTOR_SIZE == 2324

\* Limits of the Rust integer types the encoder uses.
I16_MIN == -32768
I16_MAX == 32767
I32_MAX == 2147483647
I32_MIN == (-2147483647) - 1

\* ------------------------------------------------------------------------
\* i32 arithmetic.  Every operator yields the value a release build
\* computes (two's complement wrap-around); the *Ovf predicates say when a
\* build with overflow checks panics instead.

Abs(x) == IF x < 0 THEN -x ELSE x

Pow2(k) == 2 ^ k

AddOvf(a, b) ==
  \/ (b > 0 /\ a > I32_MAX - b)
  \/ (b < 0 /\ a < I32_MIN - b)

WrapAdd(a, b) ==
  IF b > 0 /\ a > I32_MAX - b
  THEN ((a - I32_MAX) - 1) + ((b - I32_MAX) - 1)
  ELSE IF b < 0 /\ a < I32_MIN - b
       THEN ((a + I32_MAX) + 1) + ((b + I32_MAX) + 1)
       ELSE a + b

SubOvf(a, b) ==
  \/ (b < 0 /\ a > I32_MAX + b)
  \/ (b > 0 /\ a < I32_MIN + b)

WrapSub(a, b) ==
  IF b < 0 /\ a > I32_MAX + b
  THEN ((a - I32_MAX) - 1) - ((b + I32_MAX) + 1)
  ELSE IF b > 0 /\ a < I32_MIN + b
       THEN ((a + I32_MAX) + 1) - ((b - I32_MAX) - 1)
       ELSE a - b

\* k * v for a filter coefficient k (|k| < 2^15).
MulOvf(k, v) ==
  IF k = 0 THEN FALSE
  ELSE IF k > 0
       THEN v > I32_MAX \div k \/ v < ((I32_MIN + k) - 1) \div k
       ELSE v < (((-I32_MAX) - k) - 1) \div (-k)
            \/ v > (I32_MAX \div (-k))
                   + (IF I32_MAX % (-k) = (-k) - 1 THEN 1 ELSE 0)

RECURSIVE WrapMulPos(_, _)
WrapMulPos(k, v) ==
  IF k = 0 THEN 0
  ELSE LET half == WrapMulPos(k \div 2, v)
           dbl  == WrapAdd(half, half)
       IN  IF k % 2 = 1 THEN WrapAdd(dbl, v) ELSE dbl

WrapMul(k, v) ==
  IF ~MulOvf(k, v) THEN k * v
  ELSE IF k > 0 THEN WrapMulPos(k, v)
       ELSE WrapSub(0, WrapMulPos(-k, v))

\* x >> k on i32 is an arithmetic shift: the floor of x / 2^k.
Shr(x, k) == x \div Pow2(k)

\* x << k on i32 never panics for k < 32; bits shifted out are lost.
ShlLoses(x, k) == x > I32_MAX \div Pow2(k) \/ x < I32_MIN \div Pow2(k)

RECURSIVE WrapShl(_, _)
WrapShl(x, k) ==
  IF ~ShlLoses(x, k) THEN x * Pow2(k)
  ELSE WrapShl(WrapAdd(x, x), k - 1)

Clamp(x, lo, hi) == IF x < lo THEN lo ELSE IF x > hi THEN hi ELSE x

\* ------------------------------------------------------------------------
\* EncoderState

EncoderStateNew ==
  [ predictor_delayed_1    |-> <<0, 0, 0, 0>>,
    predictor_delayed_2    |-> <<0, 0, 0, 0>>,
    encoder_delayed_1      |-> 0,
    encoder_delayed_2      |-> 0,
    noise_shaper_delayed_1 |-> 0,
    noise_shaper_delayed_2 |-> 0,
    noise_shaper_output    |-> 0,
    quantizer_input        |-> 0,
    quantizer_output       |-> 0 ]

\* ------------------------------------------------------------------------
\* encode_sound_unit
\*
\* A value a loop body computes once and uses several times is passed on as
\* an operator argument: LetX(..., x) is the rest of the body after x.

\* Operands this small cannot overflow the feedback sum: the coefficients
\* have |K0| + |K1| <= 170 and 170 * 2^22 + 32 < 2^31.
FitsFast(v) == -4194304 <= v /\ v <= 4194304

\* a + b + (1 << 5) of the feedback, a and b the two products.
FeedbackSum(a, b) == WrapAdd(WrapAdd(a, b), 32)
FeedbackSumOvf(a, b) == AddOvf(a, b) \/ AddOvf(WrapAdd(a, b), 32)

\* (k0 * d1 + k1 * d2 + (1 << 5)) >> 6
Feedback(k0, k1, d1, d2) ==
  IF FitsFast(d1) /\ FitsFast(d2)
  THEN Shr(k0 * d1 + k1 * d2 + 32, 6)
  ELSE Shr(FeedbackSum(WrapMul(k0, d1), WrapMul(k1, d2)), 6)

FeedbackOvf(k0, k1, d1, d2) ==
  IF FitsFast(d1) /\ FitsFast(d2) THEN FALSE
  ELSE \/ MulOvf(k0, d1)
       \/ MulOvf(k1, d2)
       \/ FeedbackSumOvf(WrapMul(k0, d1), WrapMul(k1, d2))

\* Mutation of UpdatePeak: the peak keeps the magnitude of the sample and
\* loses its sign.
UpdatePeakMagnitude(peak, sample) ==
  IF Abs(sample) > Abs(peak) THEN Abs(sample) ELSE peak

\* if sample.abs() > peak.abs() { peak = sample; }
UpdatePeak(peak, sample) == IF Abs(sample) > Abs(peak) THEN sample ELSE peak

\* Mutation of PredictorSample: delayed_2 is not shifted, it keeps the
\* value it had.
PredictorSampleStaleDelay(dry_sample, acc, ovf, sample) ==
  [ delayed_1 |-> dry_sample,
    delayed_2 |-> acc.delayed_2,
    peak      |-> UpdatePeak(acc.peak, sample),
    overflow  |-> acc.overflow \/ ovf \/ sample = I32_MIN ]

\* The body of the predictors' inner loop for one dry sample: acc holds the
\* loop's variables delayed_1, delayed_2 and peak.
PredictorSample(dry_sample, acc, ovf, sample) ==
  [ delayed_1 |-> dry_sample,
    delayed_2 |-> acc.delayed_1,
    peak      |-> UpdatePeak(acc.peak, sample),
    overflow  |-> acc.overflow \/ ovf \/ sample = I32_MIN ]

PredictorFeedback(k0, k1, dry_sample, acc, feedback) ==
  PredictorSample(dry_sample, acc,
    FeedbackOvf(k0, k1, acc.delayed_1, acc.delayed_2)
      \/ SubOvf(dry_sample, feedback),
    WrapSub(dry_sample, feedback))

PredictorStep(k0, k1, dry_sample, acc) ==
  PredictorFeedback(k0, k1, dry_sample, acc,
                    Feedback(k0, k1, acc.delayed_1, acc.delayed_2))

\* The inner loop of the predictors over samples lo..hi, in order (split in
\* halves to keep the evaluation shallow; the first half is evaluated
\* before the second starts).
RECURSIVE PredictorLoop(_, _, _, _, _, _)
PredictorRest(k0, k1, samples, lo, hi, first) ==
  IF first.overflow \in BOOLEAN
  THEN PredictorLoop(k0, k1, samples, lo, hi, first)
  ELSE first

PredictorLoop(k0, k1, samples, lo, hi, acc) ==
  IF lo = hi
  THEN PredictorStep(k0, k1, samples[lo], acc)
  ELSE PredictorRest(k0, k1, samples, (lo + hi) \div 2 + 1, hi,
         PredictorLoop(k0, k1, samples, lo, (lo + hi) \div 2, acc))

\* One filter's trial, filter in 0..3.
Predictor(es, samples, filter) ==
  PredictorLoop(FILTER_K0[filter + 1], FILTER_K1[filter + 1], samples,
                1, SOUND_UNIT_SIZE,
                [ delayed_1 |-> es.predictor_delayed_1[filter + 1],
                  delayed_2 |-> es.predictor_delayed_2[filter + 1],
                  peak      |-> 0,
                  overflow  |-> FALSE ])

\* The loop for filter in 0..XA_ADPCM_FILTER_COUNT: the trials of the
\* filters from filter on, in order.
RECURSIVE Predictors(_, _, _)
Predictors(es, samples, filter) ==
  IF filter >= XA_ADPCM_FILTER_COUNT THEN <<>>
  ELSE <<Predictor(es, samples, filter)>> \o Predictors(es, samples, filter + 1)

\* Mutation of SelectFilter: the comparison is <= instead of <, so that of
\* equal peaks the last filter wins.
RECURSIVE SelectFilterLastWins(_, _, _, _)
SelectFilterLastWins(peaks, n, filter, lowest_peak) ==
  IF n >= XA_ADPCM_FILTER_COUNT
  THEN [filter |-> filter, lowest_peak |-> lowest_peak]
  ELSE IF Abs(peaks[n + 1]) <= Abs(lowest_peak)
       THEN SelectFilterLastWins(peaks, n + 1, n, peaks[n + 1])
       ELSE SelectFilterLastWins(peaks, n + 1, filter, lowest_peak)

\* The selection loop over the four peaks, from filter n on.
RECURSIVE SelectFilter(_, _, _, _)
SelectFilter(peaks, n, filter, lowest_peak) ==
  IF n >= XA_ADPCM_FILTER_COUNT
  THEN [filter |-> filter, lowest_peak |-> lowest_peak]
  ELSE IF Abs(peaks[n + 1]) < Abs(lowest_peak)
       THEN SelectFilter(peaks, n + 1, n, peaks[n + 1])
       ELSE SelectFilter(peaks, n + 1, filter, lowest_peak)

\* The two while loops that find the number of right shifts.
RECURSIVE ShiftUp(_, _)
ShiftUp(lowest_peak, shift) ==
  IF shift < MAX_SHIFT /\ Shr(lowest_peak, shift) > Shr(I16_MAX, MAX_SHIFT)
  THEN ShiftUp(lowest_peak, shift + 1)
  ELSE shift

RECURSIVE ShiftDown(_, _)
ShiftDown(lowest_peak, shift) ==
  IF shift < MAX_SHIFT /\ Shr(lowest_peak, shift) < Shr(I16_MIN, MAX_SHIFT)
  THEN ShiftDown(lowest_peak, shift + 1)
  ELSE shift

\* Mutation of FindShift: the shift is found from the magnitude of the peak,
\* against the positive bound alone.
FindShiftFromMagnitude(lowest_peak) == ShiftUp(Abs(lowest_peak), 0)

FindShift(lowest_peak) ==
  IF lowest_peak > 0 THEN ShiftUp(lowest_peak, 0) ELSE ShiftDown(lowest_peak, 0)

\* i8::try_from(v) succeeds; u8::try_from(v) succeeds.
FitsI8(v) == -128 <= v /\ v <= 127
FitsU8(v) == 0 <= v /\ v <= 255

\* encoded_sample.to_be_bytes()[0]: the two's complement byte of an i8.
ByteOfI8(v) == v % 256

\* Mutation of Quantize: the clamp is left out.
QuantizeUnclamped(quantizer_input) ==
  Shr(WrapAdd(quantizer_input, Pow2(MAX_SHIFT - 1)), MAX_SHIFT)

\* The quantizer: ((input + (1 << 11)) >> 12).clamp(-8, 7)
Quantize(quantizer_input) ==
  Clamp(Shr(WrapAdd(quantizer_input, Pow2(MAX_SHIFT - 1)), MAX_SHIFT),
        Shr(I16_MIN, MAX_SHIFT), Shr(I16_MAX, MAX_SHIFT))

\* Mutation of NoiseShaperInput: the error is not shifted back by range.
NoiseShaperInputUnscaled(quantizer_output, quantizer_input, range) ==
  WrapSub(WrapShl(quantizer_output, MAX_SHIFT), quantizer_input)

\* ((quantizer_output << 12) - quantizer_input) >> range
NoiseShaperInput(quantizer_output, quantizer_input, range) ==
  Shr(WrapSub(WrapShl(quantizer_output, MAX_SHIFT), quantizer_input), range)

\* Mutation of NoiseShaperOutput: the second coefficient multiplies the
\* older delayed input, as the predictors' feedback does.
NoiseShaperOutputTwoDelays(k0, k1, delayed_1, delayed_2) ==
  Feedback(k0, k1, delayed_1, delayed_2)

\* The noise shaper's feedback: k0 * delayed_1 + k1 * delayed_1.
NoiseShaperOutput(k0, k1, delayed_1, delayed_2) ==
  Feedback(k0, k1, delayed_1, delayed_1)

\* Mutation of EncodeShaped: the two assignments to the encoder delay line
\* are made in the other order, so both hold the dry sample.
EncodeShapedSwappedDelay(k0, k1, dry_sample, acc, ovf, shl, qin, qout, nsi) ==
  [ state |->
      [acc.state EXCEPT
         !.encoder_delayed_2      = dry_sample,
         !.encoder_delayed_1      = dry_sample,
         !.quantizer_input        = qin,
         !.quantizer_output       = qout,
         !.noise_shaper_delayed_2 = acc.state.noise_shaper_delayed_1,
         !.noise_shaper_delayed_1 = nsi,
         !.noise_shaper_output    =
            NoiseShaperOutput(k0, k1, nsi, acc.state.noise_shaper_delayed_1)],
    output   |-> Append(acc.output, ByteOfI8(qout)),
    overflow |-> acc.overflow \/ ovf \/ FeedbackOvf(k0, k1, nsi, nsi),
    shl_lost |-> acc.shl_lost \/ shl,
    try_from_failed |-> FALSE ]

\* The body of the encoding loop for one dry sample.  acc holds the encoder
\* state, the bytes written to output so far and how the call has failed;
\* nothing more is computed once i8::try_from has failed.
\* EncodeShaped is the body after the noise shaper's input is computed:
\* ovf and shl say whether an addition, subtraction or multiplication of
\* this sample left the i32 range, and whether a left shift lost bits.
EncodeShaped(k0, k1, dry_sample, acc, ovf, shl, qin, qout, nsi) ==
  [ state |->
      [acc.state EXCEPT
         !.encoder_delayed_2      = acc.state.encoder_delayed_1,
         !.encoder_delayed_1      = dry_sample,
         !.quantizer_input        = qin,
         !.quantizer_output       = qout,
         !.noise_shaper_delayed_2 = acc.state.noise_shaper_delayed_1,
         !.noise_shaper_delayed_1 = nsi,
         !.noise_shaper_output    =
            NoiseShaperOutput(k0, k1, nsi, acc.state.noise_shaper_delayed_1)],
    output   |-> Append(acc.output, ByteOfI8(qout)),
    overflow |-> acc.overflow \/ ovf \/ FeedbackOvf(k0, k1, nsi, nsi),
    shl_lost |-> acc.shl_lost \/ shl,
    try_from_failed |-> FALSE ]

\* after the quantizer
EncodeQuantized(k0, k1, range, dry_sample, acc, ovf, shl, qin, qout) ==
  IF ~FitsI8(qout)
  THEN [acc EXCEPT !.try_from_failed = TRUE]
  ELSE EncodeShaped(k0, k1, dry_sample, acc,
         ovf \/ AddOvf(qin, Pow2(MAX_SHIFT - 1))
             \/ SubOvf(WrapShl(qout, MAX_SHIFT), qin),
         shl \/ ShlLoses(qout, MAX_SHIFT),
         qin, qout, NoiseShaperInput(qout, qin, range))

\* after the gain control: qin is gain_control_input << range
EncodeGained(k0, k1, range, dry_sample, acc, ovf, shl, qin) ==
  EncodeQuantized(k0, k1, range, dry_sample, acc, ovf, shl, qin, Quantize(qin))

\* after filtered_sample = dry_sample - feedback
EncodeFiltered(k0, k1, range, dry_sample, acc, ovf, gain_control_input) ==
  EncodeGained(k0, k1, range, dry_sample, acc, ovf,
               ShlLoses(gain_control_input, range),
               WrapShl(gain_control_input, range))

\* after the feedback of the selected filter
EncodeFeedback(k0, k1, range, dry_sample, acc, feedback) ==
  EncodeFiltered(k0, k1, range, dry_sample, acc,
    \/ FeedbackOvf(k0, k1, acc.state.encoder_delayed_1,
                   acc.state.encoder_delayed_2)
    \/ SubOvf(dry_sample, feedback)
    \/ SubOvf(WrapSub(dry_sample, feedback), acc.state.noise_shaper_output),
    WrapSub(WrapSub(dry_sample, feedback), acc.state.noise_shaper_output))

EncodeStep(k0, k1, range, dry_sample, acc) ==
  IF acc.try_from_failed THEN acc
  ELSE EncodeFeedback(k0, k1, range, dry_sample, acc,
         Feedback(k0, k1, acc.state.encoder_delayed_1,
                  acc.state.encoder_delayed_2))

\* The encoding loop over samples lo..hi, in order (split in halves; it
\* stops where i8::try_from fails).
RECURSIVE EncodeLoop(_, _, _, _, _, _, _)
EncodeRest(k0, k1, range, samples, lo, hi, first) ==
  IF first.try_from_failed
  THEN first
  ELSE EncodeLoop(k0, k1, range, samples, lo, hi, first)

EncodeLoop(k0, k1, range, samples, lo, hi, acc) ==
  IF lo = hi
  THEN EncodeStep(k0, k1, range, samples[lo], acc)
  ELSE EncodeRest(k0, k1, range, samples, (lo + hi) \div 2 + 1, hi,
         EncodeLoop(k0, k1, range, samples, lo, (lo + hi) \div 2, acc))

\* Mutation of SoundParameter: the range goes to the high nibble and the
\* filter to the low one.
SoundParameterSwapped(filter, range) ==
  (((range * 16) % 256) \div 16) * 16 + (filter % 16)

\* ((filter_byte << 4) & 0xF0) + (range_byte & 0x0F) on u8.
SoundParameter(filter, range) ==
  (((filter * 16) % 256) \div 16) * 16 + (range % 16)

\* encode_sound_unit(encoder_state, samples, output): the state after the
\* call, the 28 bytes written to output, the returned sound parameter, the
\* state the call was entered with, the locals the selection computes, and
\* how the call can fail.
\* UnitResult is the return once the encoding loop has run, EncodeRanged
\* the function from the encoding loop on, EncodeSelected from the range
\* selection on, SelectAndEncode from the filter selection on.
UnitResult(es, trial, sel, shift, enc) ==
  [ state       |-> enc.state,
    entry       |-> es,
    output      |-> enc.output,
    ret         |-> SoundParameter(sel.filter, MAX_SHIFT - shift),
    peaks       |-> <<trial[1].peak, trial[2].peak, trial[3].peak, trial[4].peak>>,
    filter      |-> sel.filter,
    lowest_peak |-> sel.lowest_peak,
    shift       |-> shift,
    range       |-> MAX_SHIFT - shift,
    overflow    |-> enc.overflow \/ \E f \in 1..XA_ADPCM_FILTER_COUNT :
                                      trial[f].overflow,
    shl_lost    |-> enc.shl_lost,
    try_from_failed |-> \/ enc.try_from_failed
                        \/ ~FitsU8(sel.filter)
                        \/ ~FitsU8(MAX_SHIFT - shift) ]

EncodeRanged(es, samples, trial, sel, shift) ==
  UnitResult(es, trial, sel, shift,
    EncodeLoop(
      FILTER_K0[sel.filter + 1], FILTER_K1[sel.filter + 1],
      MAX_SHIFT - shift, samples, 1, SOUND_UNIT_SIZE,
      [ state |->
          [es EXCEPT
             !.predictor_delayed_1 = <<trial[1].delayed_1, trial[2].delayed_1,
                                       trial[3].delayed_1, trial[4].delayed_1>>,
             !.predictor_delayed_2 = <<trial[1].delayed_2, trial[2].delayed_2,
                                       trial[3].delayed_2, trial[4].delayed_2>>],
        output          |-> <<>>,
        overflow        |-> FALSE,
        shl_lost        |-> FALSE,
        try_from_failed |-> FALSE ]))

EncodeSelected(es, samples, trial, sel) ==
  EncodeRanged(es, samples, trial, sel, FindShift(sel.lowest_peak))

SelectAndEncode(es, samples, trial) ==
  EncodeSelected(es, samples, trial,
    SelectFilter(<<trial[1].peak, trial[2].peak, trial[3].peak, trial[4].peak>>,
                 0, 0, I16_MIN))

encode_sound_unit(es, samples) ==
  SelectAndEncode(es, samples, Predictors(es, samples, 0))

\* ------------------------------------------------------------------------
\* The input reader and fill_sample_buffer

\* Sample i (from 0) of the audio a reader of kind pat holds: silence, or
\* a recording that changes character every sound group (a slow and a fast
\* triangle wave, then a full-scale square wave followed by a level just
\* below a power of two, then triangle waves whose period and amplitude
\* grow from one sound unit to the next).
Triangle(i, half, step, amp) ==
  IF (i \div half) % 2 = 0 THEN (i % half) * step - amp
                           ELSE amp - (i % half) * step

PatternSample(pat, i) ==
  CASE pat = "zero" -> 0
    [] pat = "mix"  ->
         CASE (i \div 224) % 4 = 0 -> Triangle(i, 40, 1500, 30000)
           [] (i \div 224) % 4 = 1 -> Triangle(i, 5, 12000, 30000)
           [] (i \div 224) % 4 = 2 ->
                IF i % 224 < 112
                THEN (IF i % 2 = 0 THEN I16_MAX ELSE I16_MIN)
                ELSE 4095 - (i % 3)
           [] OTHER ->
                Triangle(i, 3 + ((i \div 28) % 8),
                         Pow2(((i \div 28) % 8) + 2),
                         5 * Pow2(((i \div 28) % 8) + 2))

\* Byte i (from 0) of the reader's content: the samples stored as
\* little-endian 16-bit words.
PatternByte(pat, i) ==
  IF i % 2 = 0
  THEN PatternSample(pat, i \div 2) % 256
  ELSE (PatternSample(pat, i \div 2) % 65536) \div 256

\* i16::from_le_bytes
I16FromLE(b0, b1) ==
  IF b0 + 256 * b1 >= 32768 THEN b0 + 256 * b1 - 65536 ELSE b0 + 256 * b1

\* rdr.read_i16::<LE>(): Ok with the sample, or Err at the end of the
\* reader (also when a single byte is left, which is consumed).
ReadI16(rdr) ==
  IF rdr.pos + 2 <= rdr.size
  THEN [ok |-> TRUE,
        value |-> I16FromLE(PatternByte(rdr.pat, rdr.pos),
                            PatternByte(rdr.pat, rdr.pos + 1)),
        rdr |-> [rdr EXCEPT !.pos = rdr.pos + 2]]
  ELSE [ok |-> FALSE, value |-> 0, rdr |-> [rdr EXCEPT !.pos = rdr.size]]

\* Mutation of StoredSample: a failed read stores 1.
StoredSampleNonZero(read) == IF read.ok THEN read.value ELSE 1

\* Ok(sample) => samples[n] = sample, Err(_) => samples[n] = 0
StoredSample(read) == IF read.ok THEN read.value ELSE 0

\* fill_sample_buffer: the loop over n = lo..hi of a buffer filled from rdr;
\* the samples stored and the reader afterwards.
FillOne(read) == [samples |-> <<StoredSample(read)>>, rdr |-> read.rdr]

FillJoin(first, rest) ==
  [samples |-> first.samples \o rest.samples, rdr |-> rest.rdr]

RECURSIVE FillLoop(_, _, _)
FillRest(lo, hi, first) == FillJoin(first, FillLoop(first.rdr, lo, hi))

FillLoop(rdr, lo, hi) ==
  IF lo > hi THEN [samples |-> <<>>, rdr |-> rdr]
  ELSE IF lo = hi THEN FillOne(ReadI16(rdr))
  ELSE FillRest((lo + hi) \div 2 + 1, hi, FillLoop(rdr, lo, (lo + hi) \div 2))

fill_sample_buffer(len, rdr) == FillLoop(rdr, 1, len)

\* ------------------------------------------------------------------------
\* The output sink

\* A limited sink accepts cap bytes in all and fails the write that goes
\* beyond them; an unlimited sink never fails.  A write gives the bytes the
\* sink holds afterwards and whether it returned Ok.
SinkWrite(out, sink, bytes) ==
  IF ~sink.limited \/ Len(out) + Len(bytes) <= sink.cap
  THEN [ok |-> TRUE, output |-> out \o bytes]
  ELSE [ok |-> FALSE,
        output |-> out \o SubSeq(bytes, 1, sink.cap - Len(out))]

\* ------------------------------------------------------------------------
\* encode_sound_group

\* Mutation of CombinedByte: the two nibbles change places.
CombinedByteSwapped(b1, b2) == (b2 % 16) + (((b1 % 16) * 16) % 256)

\* write_combined_bytes: (b1 & 0x0F) + ((b2 & 0x0F) << 4) on u8.
CombinedByte(b1, b2) == (b1 % 16) + (((b2 % 16) * 16) % 256)

\* [p0, p1, p2, p3, p0, p1, p2, p3, p4, p5, p6, p7, p4, p5, p6, p7]
SoundParameters(p) ==
  << p[1], p[2], p[3], p[4], p[1], p[2], p[3], p[4],
     p[5], p[6], p[7], p[8], p[5], p[6], p[7], p[8] >>

\* The four write_combined_bytes calls of row k (from 1).
CombinedRow(su, k) ==
  << CombinedByte(su[1][k], su[2][k]), CombinedByte(su[3][k], su[4][k]),
     CombinedByte(su[5][k], su[6][k]), CombinedByte(su[7][k], su[8][k]) >>

\* The bytes the loop for k in 0..28 writes, rows lo..hi.
RECURSIVE CombinedRows(_, _, _)
CombinedRows(su, lo, hi) ==
  IF lo = hi THEN CombinedRow(su, lo)
  ELSE CombinedRows(su, lo, (lo + hi) \div 2)
         \o CombinedRows(su, (lo + hi) \div 2 + 1, hi)

\* Everything encode_sound_group writes when no write fails.
GroupBytes(p, su) == SoundParameters(p) \o CombinedRows(su, 1, SOUND_UNIT_SIZE)

\* One call of encode_sound_unit as the caller sees it: the samples it
\* passed, the output buffer, the returned sound parameter, the state it
\* passed in, and what the call computed on the way.
UnitRecord(r, samples) ==
  [ samples     |-> samples,
    output      |-> r.output,
    ret         |-> r.ret,
    entry       |-> r.entry,
    peaks       |-> r.peaks,
    filter      |-> r.filter,
    lowest_peak |-> r.lowest_peak,
    shift       |-> r.shift,
    range       |-> r.range,
    overflow    |-> r.overflow,
    shl_lost    |-> r.shl_lost,
    try_from_failed |-> r.try_from_failed ]

\* One fill_sample_buffer + encode_sound_unit pair of encode_sound_group.
\* acc holds the encoder state, the reader and the units encoded so far;
\* nothing more runs once a conversion has panicked.
GroupEncoded(acc, buf, r) ==
  [ state    |-> r.state,
    rdr      |-> buf.rdr,
    units    |-> Append(acc.units, UnitRecord(r, buf.samples)),
    overflow |-> acc.overflow \/ r.overflow,
    try_from_failed |-> r.try_from_failed ]

GroupFilled(acc, buf) ==
  GroupEncoded(acc, buf, encode_sound_unit(acc.state, buf.samples))

\* Mutation of GroupStep: every sound unit starts from a fresh EncoderState.
GroupStepFreshState(acc) ==
  IF acc.try_from_failed THEN acc
  ELSE GroupFilled([acc EXCEPT !.state = EncoderStateNew],
                   fill_sample_buffer(SOUND_UNIT_SAMPLES, acc.rdr))

GroupStep(acc) ==
  IF acc.try_from_failed THEN acc
  ELSE GroupFilled(acc, fill_sample_buffer(SOUND_UNIT_SAMPLES, acc.rdr))

\* The pairs for sound units lo..hi, in order.
RECURSIVE GroupLoop(_, _, _)
GroupRest(lo, hi, first) ==
  IF first.try_from_failed THEN first ELSE GroupLoop(first, lo, hi)

GroupLoop(acc, lo, hi) ==
  IF lo = hi THEN GroupStep(acc)
  ELSE GroupRest((lo + hi) \div 2 + 1, hi,
                 GroupLoop(acc, lo, (lo + hi) \div 2))

\* The sound parameters p0..p7 and the buffers sound_unit_0..7 of a group.
GroupParameters(group_units) == [u \in 1..8 |-> group_units[u].ret] \o <<>>
GroupSoundUnits(group_units) == [u \in 1..8 |-> group_units[u].output] \o <<>>

\* encode_sound_group up to its writes: the eight units, the encoder state
\* and the reader after them, and the 128 bytes to write.
GroupResult(g) ==
  [ state    |-> g.state,
    rdr      |-> g.rdr,
    units    |-> g.units,
    overflow |-> g.overflow,
    try_from_failed |-> g.try_from_failed,
    bytes    |-> IF g.try_from_failed THEN <<>>
                 ELSE GroupBytes(GroupParameters(g.units),
                                 GroupSoundUnits(g.units)) ]

encode_sound_group(es, rdr0) ==
  GroupResult(GroupLoop([state |-> es, rdr |-> rdr0, units |-> <<>>,
                         overflow |-> FALSE, try_from_failed |-> FALSE], 1, 8))

\* ------------------------------------------------------------------------
\* encode_sector, encode_xa_adpcm

\* let zero_pad = [0_u8; 0x14];
ZeroPad == [i \in 1..20 |-> 0]

\* Mutation of NumSectors: the remainder is dropped.
NumSectorsFloor(samples_count) == samples_count \div ADPCM_SECTOR_SAMPLES

\* samples_count / ADPCM_SECTOR_SAMPLES, plus one if there is a remainder.
NumSectors(samples_count) ==
  IF samples_count % ADPCM_SECTOR_SAMPLES # 0
  THEN samples_count \div ADPCM_SECTOR_SAMPLES + 1
  ELSE samples_count \div ADPCM_SECTOR_SAMPLES

\* ------------------------------------------------------------------------
\* write_apcm_aiff_header

\* write_i32::<BE> / write_u32::<BE> / write_i16::<BE>
BE32(v) == << (v \div 16777216) % 256, (v \div 65536) % 256,
              (v \div 256) % 256, v % 256 >>
BE16(v) == << (v \div 256) % 256, v % 256 >>

\* Extended::try_from(18900).to_be_bytes(): 80-bit extended precision.
SampleRateBytes == <<64, 13, 147, 168, 0, 0, 0, 0, 0, 0>>

\* AIFF::new(adpcm_data_size).to_writer
AiffBytes(adpcm_data_size) ==
  <<70, 79, 82, 77>> \o BE32(4 + 8 + 18 + 8 + 8 + adpcm_data_size)
    \o <<65, 73, 70, 70>>

\* CommonChunk::new(samples_count).to_writer
CommonChunkBytes(samples_count) ==
  <<67, 79, 77, 77>> \o BE32(18) \o BE16(1) \o BE32(samples_count)
    \o BE16(4) \o SampleRateBytes

\* APCMChunk::new(adpcm_data_size).to_writer
ApcmChunkBytes(adpcm_data_size) ==
  <<65, 80, 67, 77>> \o BE32(8 + adpcm_data_size) \o BE32(0)
    \o BE32(XA_ADPCM_SECTOR_SIZE)

\* The sector count and the sample count the header is computed from:
\* three blank sectors are added to both.
HeaderSectors(num_samples) == NumSectors(num_samples) + 3
HeaderSamples(num_samples) == num_samples + 3 * ADPCM_SECTOR_SAMPLES

\* i32::try_from(num_sectors * XA_ADPCM_SECTOR_SIZE) and
\* u32::try_from(num_samples) succeed (sizes are far below 2^63 here).
HeaderFits(num_samples) ==
  /\ HeaderSectors(num_samples) <= I32_MAX \div XA_ADPCM_SECTOR_SIZE
  /\ HeaderSamples(num_samples) >= 0

\* The bytes write_apcm_aiff_header writes.
HeaderBytes(num_samples) ==
  AiffBytes(HeaderSectors(num_samples) * XA_ADPCM_SECTOR_SIZE)
    \o CommonChunkBytes(HeaderSamples(num_samples))
    \o ApcmChunkBytes(HeaderSectors(num_samples) * XA_ADPCM_SECTOR_SIZE)

\* ------------------------------------------------------------------------
\* The reference XA-ADPCM decoder the encoder's comments describe: a 4-bit
\* sample is expanded to word_value = adpcm_value * 2^(12 - R) and the
\* feedback of the unit's filter pair from the decoder's two previous
\* outputs is added.

\* The signed value of the low four bits of a stored byte.
SignedNibble(b) == IF b % 16 >= 8 THEN (b % 16) - 16 ELSE b % 16

\* The signed value of a stored byte read as an i8.
SignedByte(b) == IF b >= 128 THEN b - 256 ELSE b

DecodeSample(dec, filter, range, b) ==
  [ delayed_1 |-> SignedNibble(b) * Pow2(MAX_SHIFT - range)
                    + Feedback(FILTER_K0[filter + 1], FILTER_K1[filter + 1],
                               dec.delayed_1, dec.delayed_2),
    delayed_2 |-> dec.delayed_1 ]

RECURSIVE DecodeLoop(_, _, _, _, _, _)
DecodeRest(filter, range, bytes, lo, hi, first) ==
  IF first.delayed_1 \in Int  \* the first half is evaluated here
  THEN DecodeLoop(first, filter, range, bytes, lo, hi)
  ELSE first

DecodeLoop(dec, filter, range, bytes, lo, hi) ==
  IF lo = hi THEN DecodeSample(dec, filter, range, bytes[lo])
  ELSE DecodeRest(filter, range, bytes, (lo + hi) \div 2 + 1, hi,
                  DecodeLoop(dec, filter, range, bytes, lo, (lo + hi) \div 2))

\* The decoder's predictor state after one more sound unit, given its sound
\* parameter byte and its 28 stored samples.
decode_sound_unit(dec, parameter, bytes) ==
  DecodeLoop(dec, parameter \div 16, parameter % 16, bytes, 1, SOUND_UNIT_SIZE)

DecoderNew == [delayed_1 |-> 0, delayed_2 |-> 0]

\* ------------------------------------------------------------------------
\* State

VARIABLES
  pc,             \* where the program is
  samples_count,  \* num_samples of main, samples_count of encode_xa_adpcm
  rdr,            \* the input reader: what it holds and how far it was read
  wtr,       \* the output sink: whether and after how many bytes it fails
  output,         \* the bytes the output sink holds
  encoder_state,  \* the EncoderState of the running conversion
  num_sectors,    \* num_sectors of encode_xa_adpcm
  sector,         \* sectors completed
  group,          \* sound groups completed in the current sector
  units,          \* what the last encode_sound_unit calls returned
  calls,          \* number of encode_sound_unit calls made so far
  decoder         \* predictor state of a reference decoder fed each unit

vars == <<pc, samples_count, rdr, wtr, output, encoder_state,
          num_sectors, sector, group, units, calls, decoder>>

\* ------------------------------------------------------------------------
\* Bounds and inputs

MaxSectors == 2
MaxCalls == 3

\* Sample counts around the sector boundaries.
SampleCounts ==
  {0, 1, ADPCM_SECTOR_SAMPLES - 1}
    \cup {k * ADPCM_SECTOR_SAMPLES : k \in 1..MaxSectors}
    \cup {k * ADPCM_SECTOR_SAMPLES + 1 : k \in 1..(MaxSectors - 1)}

\* Readers: one sector of silence, a recording that ends in a stray byte
\* after 4500 samples, a recording longer than every sample count.
Readers ==
  { [pat |-> "zero", size |-> 2 * ADPCM_SECTOR_SAMPLES, pos |-> 0],
    [pat |-> "mix",  size |-> 9001, pos |-> 0],
    [pat |-> "mix",  size |-> 2 * (MaxSectors + 1) * ADPCM_SECTOR_SAMPLES,
     pos |-> 0] }

\* Sinks: one that never fails, and ones that fail in the header, in the
\* first sound group and in the zero padding of the first sector.
NoLimit == [limited |-> FALSE, cap |-> 0]
Writers == {NoLimit} \cup {[limited |-> TRUE, cap |-> c] : c \in {30, 100, 2370}}

\* ------------------------------------------------------------------------
\* main: one output file (main.rs lines 191-197)

Init ==
  /\ pc = "header"
  /\ samples_count \in SampleCounts
  /\ rdr \in Readers
  /\ wtr \in Writers
  /\ (wtr # NoLimit => rdr.pat = "zero")
  /\ output = <<>>
  /\ encoder_state = EncoderStateNew
  /\ num_sectors = 0
  /\ sector = 0
  /\ group = 0
  /\ units = <<>>
  /\ calls = 0
  /\ decoder = DecoderNew

\* aiff::write_apcm_aiff_header(num_samples, &mut wtr)?
HeaderWritten(w) ==
  /\ output' = w.output
  /\ pc' = IF w.ok THEN "encode" ELSE "failed"

WriteApcmAiffHeader ==
  /\ pc = "header"
  /\ IF ~HeaderFits(samples_count)
     THEN pc' = "failed" /\ output' = output
     ELSE HeaderWritten(SinkWrite(output, wtr, HeaderBytes(samples_count)))
  /\ UNCHANGED <<samples_count, rdr, wtr, encoder_state, num_sectors,
                 sector, group, units, calls, decoder>>

\* encode_xa_adpcm up to its loop: a fresh EncoderState, the sector count.
EncodeXaAdpcm ==
  /\ pc = "encode"
  /\ encoder_state' = EncoderStateNew
  /\ num_sectors' = NumSectors(samples_count)
  /\ sector' = 0
  /\ group' = 0
  /\ pc' = IF NumSectors(samples_count) = 0 THEN "done" ELSE "group"
  /\ UNCHANGED <<samples_count, rdr, wtr, output, units, calls, decoder>>

\* One encode_sound_group call of encode_sound_block: GroupWritten is the
\* call after its writes, GroupEncodedThenWrite the call after its eight
\* sound units.
GroupWritten(g, w) ==
  /\ output' = w.output
  /\ group' = IF w.ok THEN group + 1 ELSE group
  /\ pc' \in (IF ~w.ok THEN {"failed"}
              ELSE IF group + 1 = 18 THEN {"pad"}
              ELSE {"group"})
             \cup (IF g.overflow THEN {"panicked"} ELSE {})

GroupEncodedThenWrite(g) ==
  /\ encoder_state' = g.state
  /\ rdr' = g.rdr
  /\ units' = g.units
  /\ calls' = calls + Len(g.units)
  /\ IF g.try_from_failed
     THEN /\ pc' = "panicked"
          /\ UNCHANGED <<output, group>>
     ELSE GroupWritten(g, SinkWrite(output, wtr, g.bytes))

EncodeSoundGroup ==
  /\ pc = "group"
  /\ GroupEncodedThenWrite(encode_sound_group(encoder_state, rdr))
  /\ UNCHANGED <<samples_count, wtr, num_sectors, sector, decoder>>

\* The end of encode_sector: the 0x14 zero bytes, then the next sector.
PadWritten(w) ==
  /\ output' = w.output
  /\ sector' = IF w.ok THEN sector + 1 ELSE sector
  /\ group' = IF w.ok THEN 0 ELSE group
  /\ pc' = IF ~w.ok THEN "failed"
           ELSE IF sector + 1 = num_sectors THEN "done"
           ELSE "group"

WriteZeroPad ==
  /\ pc = "pad"
  /\ PadWritten(SinkWrite(output, wtr, ZeroPad))
  /\ UNCHANGED <<samples_count, rdr, wtr, encoder_state, num_sectors,
                 units, calls, decoder>>

Next ==
  \/ WriteApcmAiffHeader
  \/ EncodeXaAdpcm
  \/ EncodeSoundGroup
  \/ WriteZeroPad

Spec == Init /\ [][Next]_vars

\* ------------------------------------------------------------------------
\* The sound unit encoder called directly: any sequence of sound units

Levels == {I16_MIN, -1000, 0, 1, 1000, I16_MAX}

ConstUnit(a) == [n \in 1..SOUND_UNIT_SIZE |-> a]
AltUnit(a, b) == [n \in 1..SOUND_UNIT_SIZE |-> IF n % 2 = 1 THEN a ELSE b]
RampUnit(a, step) ==
  [n \in 1..SOUND_UNIT_SIZE |-> Clamp(a + (n - 1) * step, I16_MIN, I16_MAX)]
WaveUnit(half, step, amp) ==
  [n \in 1..SOUND_UNIT_SIZE |-> Triangle(n - 1, half, step, amp)]

UnitInputs ==
  {ConstUnit(a) : a \in Levels}
    \cup {AltUnit(I16_MAX, I16_MIN), AltUnit(0, 4095), AltUnit(-8, 7),
          AltUnit(242, 32634)}
    \cup {RampUnit(20000, 460), RampUnit(100, -37)}
    \cup {WaveUnit(5, 12000, 30000), WaveUnit(7, 900, 3000)}

UnitInit ==
  /\ pc = "unit"
  /\ samples_count = 0
  /\ rdr = [pat |-> "zero", size |-> 0, pos |-> 0]
  /\ wtr = NoLimit
  /\ output = <<>>
  /\ encoder_state = EncoderStateNew
  /\ num_sectors = 0
  /\ sector = 0
  /\ group = 0
  /\ units = <<>>
  /\ calls = 0
  /\ decoder = DecoderNew

\* One call encode_sound_unit(&mut encoder_state, &samples, &mut output);
\* the reference decoder then decodes what the call emitted.
UnitReturned(samples, r) ==
  /\ encoder_state' = r.state
  /\ units' = <<UnitRecord(r, samples)>>
  /\ decoder' = IF r.try_from_failed THEN decoder
                ELSE decode_sound_unit(decoder, r.ret, r.output)
  /\ pc' \in IF r.try_from_failed THEN {"panicked"}
             ELSE IF r.overflow THEN {"panicked", "unit"}
             ELSE {"unit"}

CallEncodeSoundUnit ==
  /\ pc = "unit"
  /\ calls < MaxCalls
  /\ \E samples \in UnitInputs :
       UnitReturned(samples, encode_sound_unit(encoder_state, samples))
  /\ calls' = calls + 1
  /\ UNCHANGED <<samples_count, rdr, wtr, output, num_sectors, sector,
                 group>>

UnitNext == CallEncodeSoundUnit

UnitSpec == UnitInit /\ [][UnitNext]_vars

\* ------------------------------------------------------------------------
\* Properties of the sound unit encoder (UnitSpec)

\* C1: every encode_sound_unit call, from whatever state earlier calls
\* left, writes 28 samples whose signed value lies in -8..7, selects a filter
\* in 0..3 and a range in 0..12, and returns the byte with the filter in
\* its high nibble and the range in its low nibble.
C1_UnitOutputInRange ==
  \A u \in 1..Len(units) :
    /\ Len(units[u].output) = SOUND_UNIT_SIZE
    /\ \A k \in 1..SOUND_UNIT_SIZE : SignedByte(units[u].output[k]) \in (-8)..7
    /\ units[u].filter \in 0..3
    /\ units[u].range \in 0..12
    /\ units[u].ret \div 16 = units[u].filter
    /\ units[u].ret % 16 = units[u].range

\* C1 witness: a call after others that selected a filter with feedback and
\* a range strictly between 0 and 12, and emitted both extreme nibbles.
C1_ExtremeNibblesEmitted ==
  /\ calls >= 2
  /\ Len(units) = 1
  /\ units[1].filter >= 1
  /\ units[1].range \in 1..11
  /\ \E k \in 1..SOUND_UNIT_SIZE : SignedByte(units[1].output[k]) = -8
  /\ \E k \in 1..SOUND_UNIT_SIZE : SignedByte(units[1].output[k]) = 7

\* The first call of a run was made on 28 zero samples.
FreshSilentCall ==
  /\ pc = "unit"
  /\ calls = 1
  /\ Len(units) = 1
  /\ \A k \in 1..SOUND_UNIT_SIZE : units[1].samples[k] = 0

\* C2 as stated: on a fresh state 28 zero samples select filter 0 and
\* range 0, the sound parameter is 0x00, and every nibble is 0.
C2_SilenceHasRangeZero ==
  FreshSilentCall =>
    /\ units[1].filter = 0
    /\ units[1].range = 0
    /\ units[1].ret = 0
    /\ \A k \in 1..SOUND_UNIT_SIZE : units[1].output[k] = 0

\* C2 amended: on a fresh state 28 zero samples select filter 0 and range
\* 12 (no shift is needed for a zero peak), the sound parameter is 0x0C, and
\* every nibble is 0.
C2_SilenceHasRangeTwelve ==
  FreshSilentCall =>
    /\ units[1].filter = 0
    /\ units[1].shift = 0
    /\ units[1].range = MAX_SHIFT
    /\ units[1].ret = 12
    /\ Len(units[1].output) = SOUND_UNIT_SIZE
    /\ \A k \in 1..SOUND_UNIT_SIZE : units[1].output[k] = 0

\* C2 witness: the silent first call has returned, all four peaks zero.
C2_SilentCallReturned ==
  FreshSilentCall /\ units[1].peaks = <<0, 0, 0, 0>>

\* C9 as stated: after every sound unit the encoder's delay line equals the
\* predictor state of the decoder that has decoded the same units.
C9_DelayLineIsDecoderState ==
  (pc = "unit" /\ Len(units) = 1) =>
    /\ encoder_state.encoder_delayed_1 = decoder.delayed_1
    /\ encoder_state.encoder_delayed_2 = decoder.delayed_2

\* C9 amended: after every sound unit the encoder's delay line holds the last
\* two input samples of the unit, unquantized; the decoder's two last
\* reconstructed samples differ from them by the quantization error, which
\* for a unit encoded with filter 0 is what the noise shaper's delay line
\* holds.
C9_DelayLineHoldsInput ==
  (pc = "unit" /\ Len(units) = 1) =>
    /\ encoder_state.encoder_delayed_1 = units[1].samples[SOUND_UNIT_SIZE]
    /\ encoder_state.encoder_delayed_2 = units[1].samples[SOUND_UNIT_SIZE - 1]
    /\ units[1].filter = 0 =>
         /\ decoder.delayed_1 = encoder_state.encoder_delayed_1
                                  + encoder_state.noise_shaper_delayed_1
         /\ decoder.delayed_2 = encoder_state.encoder_delayed_2
                                  + encoder_state.noise_shaper_delayed_2

\* C9 witness: after a second or later unit, encoded with filter 0, the
\* decoder's last sample is not the encoder's.
C9_DecoderDiffersFromDelayLine ==
  /\ pc = "unit"
  /\ calls >= 2
  /\ Len(units) = 1
  /\ units[1].filter = 0
  /\ units[1].samples[SOUND_UNIT_SIZE] # units[1].samples[SOUND_UNIT_SIZE - 1]
  /\ decoder.delayed_1 # encoder_state.encoder_delayed_1

\* C10: no encode_sound_unit call fails: no conversion to i8 or u8 fails
\* and no sum, difference, product or left shift leaves the i32 range.
C10_UnitNeverFails ==
  /\ pc # "panicked"
  /\ \A u \in 1..Len(units) :
       /\ ~units[u].try_from_failed
       /\ ~units[u].overflow
       /\ ~units[u].shl_lost

\* C10 witness: a quiet unit, encoded with range 12 right after a loud one,
\* has returned: the noise shaper's output left by the loud unit was
\* shifted left by 12 and drove the quantizer into its clamp.
C10_LoudThenQuietReturned ==
  /\ pc = "unit"
  /\ calls >= 2
  /\ Len(units) = 1
  /\ units[1].range = MAX_SHIFT
  /\ Abs(units[1].samples[1]) <= 1
  /\ SignedByte(units[1].output[1]) \in {-8, 7}

\* The dry samples filter f's trial has seen before sample n of a unit: the
\* two the state held at entry, then the unit's own.  Sample n has
\* TrialHistory[n + 1] one back and TrialHistory[n] two back.
TrialHistory(es, samples, f) ==
  <<es.predictor_delayed_2[f + 1], es.predictor_delayed_1[f + 1]>> \o samples

\* dry sample minus ((K0 * d1 + K1 * d2 + 32) >> 6), in plain integers.
ResidualOf(k0, k1, history, n) ==
  history[n + 2] - ((k0 * history[n + 1] + k1 * history[n] + 32) \div 64)

\* The 28 trial residuals of filter f for a unit entered with state es.
TrialResidualsOf(f, history) ==
  [n \in 1..SOUND_UNIT_SIZE |->
     ResidualOf(FILTER_K0[f + 1], FILTER_K1[f + 1], history, n)] \o <<>>

TrialResiduals(es, samples, f) ==
  TrialResidualsOf(f, TrialHistory(es, samples, f))

\* The first element of r among those of largest absolute value.
FirstLargest(r) ==
  r[CHOOSE i \in 1..Len(r) :
      /\ \A j \in 1..Len(r) : Abs(r[j]) <= Abs(r[i])
      /\ \A j \in 1..(i - 1) : Abs(r[j]) < Abs(r[i])]

\* The lowest filter among those whose peak is smallest in absolute value.
LowestFilter(peaks) ==
  CHOOSE f \in 0..(XA_ADPCM_FILTER_COUNT - 1) :
    /\ \A g \in 0..(XA_ADPCM_FILTER_COUNT - 1) :
         Abs(peaks[f + 1]) <= Abs(peaks[g + 1])
    /\ \A g \in 0..(f - 1) : Abs(peaks[g + 1]) > Abs(peaks[f + 1])

\* C11: in every encode_sound_unit call the peak of each filter is the
\* first of its 28 trial residuals that has the largest absolute value,
\* with its sign, and the selected filter is the lowest filter whose peak
\* is smallest in absolute value, also when no peak is below 32768.
C11_PeakAndFilterSelection ==
  \A u \in 1..Len(units) :
    /\ \A f \in 0..(XA_ADPCM_FILTER_COUNT - 1) :
         units[u].peaks[f + 1] =
           FirstLargest(TrialResiduals(units[u].entry, units[u].samples, f))
    /\ units[u].filter = LowestFilter(units[u].peaks)

\* C11 witness: a unit after another whose peaks all have absolute value
\* 32768 or more; filter 0 was selected, its peak the negative full-scale
\* sample, which is not the unit's first sample.
C11_NoPeakBelowFullScale ==
  /\ pc = "unit"
  /\ calls >= 2
  /\ Len(units) = 1
  /\ \A f \in 1..XA_ADPCM_FILTER_COUNT : Abs(units[1].peaks[f]) >= 32768
  /\ units[1].filter = 0
  /\ units[1].peaks[1] = I16_MIN
  /\ units[1].samples[1] # I16_MIN

\* Whether peak, shifted right by s, is within the bound of its sign.
PeakFits(peak, s) ==
  IF peak > 0 THEN peak \div Pow2(s) <= 7 ELSE peak \div Pow2(s) >= -8

\* The least right shift in 0..12 that brings peak within the bound.
LeastShift(peak) ==
  CHOOSE s \in 0..MAX_SHIFT :
    PeakFits(peak, s) /\ \A t \in 0..(s - 1) : ~PeakFits(peak, t)

\* C12: in every encode_sound_unit call the shift is found from the peak
\* of the selected filter and is the least s in 0..12 with peak >> s <= 7
\* for a positive peak, peak >> s >= -8 otherwise; such an s exists, the
\* peak shifted by the chosen shift is within -8..7, and the encoded range
\* is 12 - shift.
C12_ShiftIsLeastFit ==
  \A u \in 1..Len(units) :
    /\ units[u].lowest_peak = units[u].peaks[units[u].filter + 1]
    /\ \E s \in 0..MAX_SHIFT : PeakFits(units[u].lowest_peak, s)
    /\ units[u].shift = LeastShift(units[u].lowest_peak)
    /\ units[u].lowest_peak \div Pow2(units[u].shift) \in (-8)..7
    /\ units[u].range = 12 - units[u].shift
    /\ units[u].ret % 16 = 12 - units[u].shift

\* C12 witness: a unit whose selected peak is the largest positive sample;
\* the search ran up to its cap and the peak fits exactly there.
C12_LargestPeakShiftedTwelve ==
  /\ pc = "unit"
  /\ Len(units) = 1
  /\ units[1].lowest_peak = I16_MAX
  /\ units[1].shift = MAX_SHIFT
  /\ ~PeakFits(units[1].lowest_peak, MAX_SHIFT - 1)
  /\ units[1].range = 0

\* Pass 2 as C13 states it, in plain integers.  For one sample: the
\* quantizer input, the nibble, the new noise shaper input and the noise
\* shaper feedback for the next sample.
ShapedInput(k0, k1, range, dry, d1, d2, nso) ==
  (dry - ((k0 * d1 + k1 * d2 + 32) \div 64) - nso) * Pow2(range)

ShapedNibble(input) ==
  IF (input + 2048) \div 4096 < -8 THEN -8
  ELSE IF (input + 2048) \div 4096 > 7 THEN 7
  ELSE (input + 2048) \div 4096

ShapedError(nibble, input, range) == (nibble * 4096 - input) \div Pow2(range)

ShapedFeedback(k0, k1, error) == ((k0 + k1) * error + 32) \div 64

\* The 28 samples from sample n on: d1 and d2 are the two previous dry
\* samples, nso the feedback for sample n, last what the previous sample
\* left (its quantizer input, nibble and error), out the nibbles so far.
RECURSIVE ShapedPass(_, _, _, _, _, _, _, _, _, _)
ShapedEmitted(k0, k1, range, samples, n, d1, out, input, nibble, error) ==
  ShapedPass(k0, k1, range, samples, n + 1, samples[n], d1,
             ShapedFeedback(k0, k1, error),
             [input |-> input, nibble |-> nibble, error |-> error],
             Append(out, nibble))

ShapedQuantized(k0, k1, range, samples, n, d1, out, input, nibble) ==
  ShapedEmitted(k0, k1, range, samples, n, d1, out, input, nibble,
                ShapedError(nibble, input, range))

ShapedGained(k0, k1, range, samples, n, d1, out, input) ==
  ShapedQuantized(k0, k1, range, samples, n, d1, out, input,
                  ShapedNibble(input))

ShapedPass(k0, k1, range, samples, n, d1, d2, nso, last, out) ==
  IF n > SOUND_UNIT_SIZE
  THEN [nibbles |-> out, last |-> last, feedback |-> nso]
  ELSE ShapedGained(k0, k1, range, samples, n, d1, out,
         ShapedInput(k0, k1, range, samples[n], d1, d2, nso))

\* Pass 2 of the unit u by those formulas: it starts from the encode delay
\* line and the noise shaper feedback of the state at entry, nothing else.
ShapedUnit(u) ==
  ShapedPass(FILTER_K0[u.filter + 1], FILTER_K1[u.filter + 1], u.range,
             u.samples, 1,
             u.entry.encoder_delayed_1, u.entry.encoder_delayed_2,
             u.entry.noise_shaper_output,
             [input |-> 0, nibble |-> 0, error |-> 0], <<>>)

\* Whether the call recorded in u, which left the state es, agrees with
\* the pass ref.
ShapedAgrees(u, es, ref) ==
  /\ Len(u.output) = SOUND_UNIT_SIZE
  /\ \A k \in 1..SOUND_UNIT_SIZE : SignedByte(u.output[k]) = ref.nibbles[k]
  /\ es.quantizer_input = ref.last.input
  /\ es.quantizer_output = ref.last.nibble
  /\ es.noise_shaper_delayed_1 = ref.last.error
  /\ es.noise_shaper_output = ref.feedback

\* Values put in place of the fields the call is said not to read.
ScratchValues == {-4097, 123456}

\* The state es with the noise shaper's older delayed input and the
\* quantizer's input and output replaced.
WithScratch(es, a, b, c) ==
  [es EXCEPT !.noise_shaper_delayed_2 = a,
             !.quantizer_input = b,
             !.quantizer_output = c]

\* Whether the call r emitted what the call recorded in u did.
SameEmitted(u, r) == r.output = u.output /\ r.ret = u.ret

\* C13: in every encode_sound_unit call, pass 2 computes for each sample
\* the quantizer input (dry - feedback - noise_shaper_output) << range, the
\* nibble ((input + 2048) >> 12) clamped to -8..7, the noise shaper input
\* ((nibble << 12) - input) >> range and the noise shaper feedback for the
\* next sample ((K0 + K1) * that input + 32) >> 6, the last one carried to
\* the next unit; the noise_shaper_delayed_2, quantizer_input and
\* quantizer_output the state holds at entry change no emitted byte.
C13_PassTwoFormulas ==
  (pc = "unit" /\ Len(units) = 1) =>
    /\ ShapedAgrees(units[1], encoder_state, ShapedUnit(units[1]))
    /\ \A a, b, c \in ScratchValues :
         SameEmitted(units[1],
           encode_sound_unit(WithScratch(units[1].entry, a, b, c),
                             units[1].samples))

\* C13 witness: a unit encoded with a filter that has feedback and a range
\* strictly between 0 and 12, entered with a nonzero noise shaper feedback,
\* older delayed input and quantizer values, has left a nonzero noise
\* shaper feedback for the next unit.
C13_ShapedUnitReturned ==
  /\ pc = "unit"
  /\ calls >= 2
  /\ Len(units) = 1
  /\ units[1].filter >= 1
  /\ units[1].range \in 1..11
  /\ units[1].entry.noise_shaper_output # 0
  /\ units[1].entry.noise_shaper_delayed_2 # 0
  /\ units[1].entry.quantizer_input # 0
  /\ units[1].entry.quantizer_output # 0
  /\ encoder_state.noise_shaper_output # 0

\* The dry samples pass 2 has seen before sample n of a unit: the two of
\* the encode delay line at entry, then the unit's own.
EncodeHistory(es, samples) ==
  <<es.encoder_delayed_2, es.encoder_delayed_1>> \o samples

\* The 28 filtered residuals of pass 2 for the filter the unit selected.
FilteredResiduals(es, samples, filter) ==
  TrialResidualsOf(filter, EncodeHistory(es, samples))

\* Whether the five delay lines of es all hold d1 and d2.
DelayLinesHold(es, d1, d2) ==
  /\ es.encoder_delayed_1 = d1
  /\ es.encoder_delayed_2 = d2
  /\ \A f \in 1..XA_ADPCM_FILTER_COUNT :
       /\ es.predictor_delayed_1[f] = d1
       /\ es.predictor_delayed_2[f] = d2

\* Whether every element of the residuals filtered equals that of trial
\* and none exceeds peak in absolute value.
ResidualsWithinPeak(filtered, trial, peak) ==
  \A n \in 1..SOUND_UNIT_SIZE :
    filtered[n] = trial[n] /\ Abs(filtered[n]) <= Abs(peak)

\* C14: after every encode_sound_unit call the four trial delay lines and
\* the encode delay line all hold the unit's 28th and 27th sample; so the
\* call was entered with the five lines equal, its pass 2 residuals are the
\* trial residuals of the selected filter, and none exceeds the selected
\* peak in absolute value.
C14_DelayLinesIdentical ==
  (pc = "unit" /\ Len(units) = 1) =>
    /\ DelayLinesHold(encoder_state, units[1].samples[SOUND_UNIT_SIZE],
                      units[1].samples[SOUND_UNIT_SIZE - 1])
    /\ DelayLinesHold(units[1].entry, units[1].entry.encoder_delayed_1,
                      units[1].entry.encoder_delayed_2)
    /\ ResidualsWithinPeak(
         FilteredResiduals(units[1].entry, units[1].samples, units[1].filter),
         TrialResiduals(units[1].entry, units[1].samples, units[1].filter),
         units[1].peaks[units[1].filter + 1])

\* C14 witness: a unit entered with nonzero delay lines that differ from
\* each other, encoded with a filter that has feedback, whose last two
\* samples differ and whose selected peak is not zero.
C14_FilteredUnitReturned ==
  /\ pc = "unit"
  /\ calls >= 2
  /\ Len(units) = 1
  /\ units[1].filter >= 1
  /\ units[1].entry.encoder_delayed_1 # 0
  /\ units[1].entry.encoder_delayed_1 # units[1].entry.encoder_delayed_2
  /\ units[1].samples[SOUND_UNIT_SIZE] # units[1].samples[SOUND_UNIT_SIZE - 1]
  /\ units[1].lowest_peak # 0

\* ------------------------------------------------------------------------
\* Properties of the stream (Spec)

\* The number of bytes write_apcm_aiff_header writes before the sectors.
HeaderLen == Len(HeaderBytes(samples_count))

\* k = ceil(n / ADPCM_SECTOR_SAMPLES), stated without a division.
IsCeilSectors(k, n) ==
  /\ k >= 0
  /\ k * ADPCM_SECTOR_SAMPLES >= n
  /\ k = 0 \/ (k - 1) * ADPCM_SECTOR_SAMPLES < n

\* Sample i (from 0) of the input padded with zeros: what the reader holds
\* while it has a whole sample, 0 after that.
StreamSample(i) ==
  IF i < rdr.size \div 2 THEN PatternSample(rdr.pat, i) ELSE 0

\* An encode_sound_group call has just returned Ok; the index in the stream
\* of the first sample it read.
GroupJustEncoded == pc \in {"group", "pad"} /\ group >= 1
LastGroupBase == (sector * 18 + group - 1) * SOUND_GROUP_SAMPLES

\* C3: the number of sectors encode_xa_adpcm emits is ceil(n / 4032): 0 for
\* n = 0, n / 4032 for a multiple of 4032, floor(n / 4032) + 1 otherwise, 2
\* for n = 4033; and it never decreases when n increases.
C3_SectorCountIsCeiling ==
  /\ pc = "done" =>
       /\ Len(output) - HeaderLen = sector * XA_ADPCM_SECTOR_SIZE
       /\ IsCeilSectors(sector, samples_count)
       /\ samples_count = 0 => sector = 0
       /\ samples_count % 4032 = 0 => sector = samples_count \div 4032
       /\ samples_count % 4032 # 0 => sector = samples_count \div 4032 + 1
       /\ samples_count = 4033 => sector = 2
  /\ \A m, n \in SampleCounts : m <= n => NumSectors(m) <= NumSectors(n)

\* C3 witness: 4033 samples were encoded into 2 sectors.
C3_TwoSectorsFor4033 ==
  /\ pc = "done"
  /\ samples_count = 4033
  /\ sector = 2
  /\ Len(output) - HeaderLen = 2 * XA_ADPCM_SECTOR_SIZE

\* C4: with a sink that never fails, encode_xa_adpcm writes 18 groups of 128
\* bytes and then 20 zero bytes per sector, ceil(n / 4032) * 2324 bytes in
\* all, whatever the reader holds; every sample asked of an exhausted
\* reader is encoded as 0.
C4_WholeSectorsWritten ==
  ~wtr.limited =>
    /\ pc # "failed"
    /\ pc \in {"group", "pad", "done"} =>
         Len(output) - HeaderLen = sector * XA_ADPCM_SECTOR_SIZE + group * 128
    /\ pc = "pad" => group = 18
    /\ pc = "done" =>
         /\ IsCeilSectors(sector, samples_count)
         /\ Len(output) - HeaderLen = sector * XA_ADPCM_SECTOR_SIZE
    /\ pc \in {"group", "pad", "done"} =>
         \A s \in 1..sector : \A j \in 1..20 :
           output[HeaderLen + s * XA_ADPCM_SECTOR_SIZE - 20 + j] = 0
    /\ GroupJustEncoded =>
         \A u \in 1..Len(units) : \A k \in 1..SOUND_UNIT_SAMPLES :
           LastGroupBase + (u - 1) * SOUND_UNIT_SAMPLES + (k - 1) >= rdr.size \div 2
             => units[u].samples[k] = 0

\* C4 witness: two sectors are complete for a reader that held 4500 samples
\* and a stray byte, and the units before the reader's end were not silent.
C4_ShortReaderTwoSectors ==
  /\ pc = "done"
  /\ ~wtr.limited
  /\ rdr.size = 9001
  /\ rdr.pos = rdr.size
  /\ sector = 2
  /\ \E i \in 1..(18 * 128) : output[HeaderLen + i] \notin {0, 12}

\* 4032 zero samples have been encoded.
SilentSectorEncoded ==
  /\ pc = "done"
  /\ samples_count = ADPCM_SECTOR_SAMPLES
  /\ rdr.pat = "zero"

\* C5 as stated: 4032 zero samples give one sector of 2324 bytes, all of
\* them 0x00.
C5_SilentSectorAllZero ==
  SilentSectorEncoded =>
    /\ Len(output) - HeaderLen = XA_ADPCM_SECTOR_SIZE
    /\ \A i \in 1..XA_ADPCM_SECTOR_SIZE : output[HeaderLen + i] = 0

\* C5 amended: 4032 zero samples give one sector of 2324 bytes: in each of
\* the 18 groups the 16 parameter bytes are 0x0C (filter 0, range 12) and
\* the 112 data bytes are 0x00, and the last 20 bytes are 0x00.
C5_SilentSectorParametersTwelve ==
  SilentSectorEncoded =>
    /\ Len(output) - HeaderLen = XA_ADPCM_SECTOR_SIZE
    /\ \A g \in 0..17 :
         /\ \A j \in 1..16 : output[HeaderLen + g * 128 + j] = 12
         /\ \A j \in 17..128 : output[HeaderLen + g * 128 + j] = 0
    /\ \A j \in 1..20 : output[HeaderLen + 18 * 128 + j] = 0

\* C5 witness: the silent sector is complete, all its samples read from the
\* reader.
C5_SilentSectorDone ==
  /\ SilentSectorEncoded
  /\ sector = 1
  /\ rdr.pos = 2 * ADPCM_SECTOR_SAMPLES
  /\ calls = 18 * 8

\* The big-endian 32-bit number at bytes[at .. at + 3].
FromBE32(bytes, at) ==
  ((bytes[at] * 256 + bytes[at + 1]) * 256 + bytes[at + 2]) * 256 + bytes[at + 3]

\* C6: the data size the header records (APCM chunk size - 8, FORM chunk
\* size - 46) is ceil(n / 4032) * 2324, the number of bytes written after
\* the header, and the sample frame count it records is n.
C6_HeaderSizeIsBodySize ==
  pc = "done" =>
    /\ FromBE32(output, 43) - 8 = Len(output) - HeaderLen
    /\ FromBE32(output, 5) - 46 = Len(output) - HeaderLen
    /\ Len(output) - HeaderLen = sector * XA_ADPCM_SECTOR_SIZE
    /\ IsCeilSectors(sector, samples_count)
    /\ FromBE32(output, 23) = samples_count

\* C6 witness of the divergence: for 4032 samples the header records four
\* sectors and 16128 sample frames, and one sector follows it.
C6_HeaderCountsThreeMoreSectors ==
  /\ pc = "done"
  /\ samples_count = ADPCM_SECTOR_SAMPLES
  /\ Len(output) - HeaderLen = XA_ADPCM_SECTOR_SIZE
  /\ FromBE32(output, 43) - 8 = 4 * XA_ADPCM_SECTOR_SIZE
  /\ FromBE32(output, 5) - 46 = 4 * XA_ADPCM_SECTOR_SIZE
  /\ FromBE32(output, 23) = 4 * ADPCM_SECTOR_SAMPLES

\* The 128 bytes the last encode_sound_group call wrote.
LastGroupBytes == SubSeq(output, Len(output) - 127, Len(output))

\* C7: encode_sound_group encodes 8 sound units from 8 consecutive slices
\* of 28 samples and writes 128 bytes: p0..p3, p0..p3, p4..p7, p4..p7, then
\* for each row k four bytes for the pairs (u0,u1), (u2,u3), (u4,u5),
\* (u6,u7), the even unit's nibble in bits 0-3, the odd unit's in bits 4-7.
C7_GroupLayout ==
  GroupJustEncoded =>
    /\ Len(units) = 8
    /\ \A u \in 1..8 : \A k \in 1..SOUND_UNIT_SAMPLES :
         units[u].samples[k] =
           StreamSample(LastGroupBase + (u - 1) * SOUND_UNIT_SAMPLES + (k - 1))
    /\ \A j \in 0..15 :
         LastGroupBytes[j + 1] =
           units[(j % 4) + (IF j >= 8 THEN 4 ELSE 0) + 1].ret
    /\ \A k \in 0..27 : \A q \in 0..3 :
         /\ LastGroupBytes[16 + 4 * k + q + 1] % 16
              = units[2 * q + 1].output[k + 1] % 16
         /\ LastGroupBytes[16 + 4 * k + q + 1] \div 16
              = units[2 * q + 2].output[k + 1] % 16

\* C7 witness: a group was written whose eight units have eight different
\* sound parameters and whose paired units differ in a row.
C7_MixedGroupWritten ==
  /\ GroupJustEncoded
  /\ Len(units) = 8
  /\ Cardinality({units[u].ret : u \in 1..8}) = 8
  /\ \A q \in 0..3 : \E k \in 1..SOUND_UNIT_SIZE :
       units[2 * q + 1].output[k] % 16 # units[2 * q + 2].output[k] % 16

\* The reference of C8: one EncoderState threaded by hand through
\* encode_sound_unit over the slices lo..hi (from 0) of the padded input.
StreamSlice(n) ==
  [k \in 1..SOUND_UNIT_SAMPLES |-> StreamSample(n * SOUND_UNIT_SAMPLES + k - 1)]
    \o <<>>

ThreadedAppend(acc, r) ==
  [ state |-> r.state,
    units |-> Append(acc.units, [ret |-> r.ret, output |-> r.output]) ]

ThreadedStep(acc, n) ==
  ThreadedAppend(acc, encode_sound_unit(acc.state, StreamSlice(n)))

RECURSIVE ThreadedLoop(_, _, _)
ThreadedRest(lo, hi, first) ==
  IF Len(first.units) >= 0 THEN ThreadedLoop(first, lo, hi) ELSE first

ThreadedLoop(acc, lo, hi) ==
  IF lo > hi THEN acc
  ELSE IF lo = hi THEN ThreadedStep(acc, lo)
  ELSE ThreadedRest((lo + hi) \div 2 + 1, hi,
                    ThreadedLoop(acc, lo, (lo + hi) \div 2))

ThreadedUnits(count) ==
  ThreadedLoop([state |-> EncoderStateNew, units |-> <<>>], 0, count - 1).units

\* Where sound unit n (from 0) of the stream lies in the output: the offset
\* of its group, its two parameter bytes, and its nibble of row k (from 0).
GroupOffset(n) ==
  HeaderLen + (n \div 144) * XA_ADPCM_SECTOR_SIZE + ((n % 144) \div 8) * 128

ParameterAt(n) ==
  output[GroupOffset(n) + (n % 4) + (IF n % 8 >= 4 THEN 8 ELSE 0) + 1]

ParameterCopyAt(n) ==
  output[GroupOffset(n) + (n % 4) + (IF n % 8 >= 4 THEN 8 ELSE 0) + 5]

NibbleAt(n, k) ==
  IF n % 2 = 0
  THEN output[GroupOffset(n) + 16 + 4 * k + ((n % 8) \div 2) + 1] % 16
  ELSE output[GroupOffset(n) + 16 + 4 * k + ((n % 8) \div 2) + 1] \div 16

\* Whether the written stream agrees with the units threaded by hand.
AgreesWith(threaded) ==
  \A n \in 0..(Len(threaded) - 1) :
    /\ ParameterAt(n) = threaded[n + 1].ret
    /\ ParameterCopyAt(n) = threaded[n + 1].ret
    /\ \A k \in 0..(SOUND_UNIT_SIZE - 1) :
         NibbleAt(n, k) = threaded[n + 1].output[k + 1] % 16

\* C8: the parameter bytes and nibbles in the output of encode_xa_adpcm are
\* those of one fresh EncoderState threaded through encode_sound_unit over
\* the consecutive 28-sample slices of the zero-padded input: the state is
\* never reset at a unit, group or sector boundary.
C8_OneStateThreaded ==
  pc = "done" =>
    /\ calls = sector * 144
    /\ AgreesWith(ThreadedUnits(sector * 144))

\* C8 witness: two sectors of a recording are complete, the encoder state
\* at the end carrying the recording's last samples and a quantization
\* error.
C8_TwoSectorsOfRecordingDone ==
  /\ pc = "done"
  /\ rdr.pat = "mix"
  /\ sector = 2
  /\ encoder_state.encoder_delayed_1 # 0
  /\ encoder_state.noise_shaper_delayed_1 # 0

====
